---- MODULE Spec2Model ----
(***************************************************************************)
(* BIST100-Extractor: the SQLite persistence layer (db.py), the Yahoo      *)
(* chart fetcher and batch orchestrator (fetch.py) and the CLI pipeline    *)
(* (cli.py).                                                               *)
(*                                                                         *)
(* Conventions.  A table is the set of its rows; a row is a function from  *)
(* column names to values.  NULL stands for Python None / NaN / pd.NA and  *)
(* for SQL NULL.  A datetime value is [s |-> whole seconds since the epoch, *)
(* ms |-> the sub-second part]; a "YYYY-MM-DD HH:MM:SS" string is the      *)
(* number of whole seconds it shows.                                       *)
(* Key columns (ticker, interval, symbol, run_id) hold non-null strings,   *)
(* as fetch.py produces them.                                              *)
(***************************************************************************)
EXTENDS Integers, Sequences, FiniteSets, TLC

VARIABLES
    prices,     \* table prices
    runs,       \* table runs
    meta,       \* table meta
    clock,      \* wall clock, whole seconds, read by datetime.now(UTC)
    nuuid,      \* number of uuid4() tokens drawn so far
    ncalls,     \* number of ingest_prices calls made so far
    nmeta,      \* number of ingest_meta calls made so far
    last,       \* the latest completed operation: its arguments and outcome
    fb,         \* the running or finished fetch_batch call
    cli         \* the running or finished main call

vars == <<prices, runs, meta, clock, nuuid, ncalls, nmeta, last, fb, cli>>

NULL == "NULL"

\* ---------------------------------------------------------------- bounds
MaxCalls == 3        \* ingest_prices calls in one behaviour
MaxMetaCalls == 2    \* ingest_meta calls in one behaviour
MaxSymbols == 3      \* length of the symbol list given to fetch_batch
MaxInvocations == 2  \* runs of the command line in one behaviour
MaxBars == 2         \* timestamps in one chart document

\* ------------------------------------------------------------- time model
\* strftime("%Y-%m-%d %H:%M:%S"): the sub-second part is not printed.
Strftime(dt) == dt.s

\* UTC offset, in seconds, of the time zones the program names.
TzOffset(tz) == IF tz = "Europe/Istanbul" THEN 10800 ELSE 0

\* Series.dt.tz_convert(tz).dt.tz_localize(None): the wall clock shown in tz.
WallClock(dt, tz) == [dt EXCEPT !.s = dt.s + TzOffset(tz)]

\* ------------------------------------------------------------ the schema
PriceCols ==
    {"ticker", "datetime_utc", "datetime_local", "datetime_tr",
     "open", "high", "low", "close", "volume", "adjclose",
     "range_str", "interval", "ingested_at", "run_id"}

PriceKeyMut == <<"ticker", "datetime_utc", "interval", "run_id">>

\* PRIMARY KEY (ticker, datetime_utc, interval), the ON CONFLICT target
PriceKey == <<"ticker", "datetime_utc", "interval">>

PriceSetColsMut ==
    {"open", "high", "low", "close", "volume", "adjclose",
     "range_str", "ingested_at"}

PriceSetColsWithLocal ==
    {"datetime_local", "datetime_tr", "open", "high", "low", "close", "volume",
     "adjclose", "range_str", "ingested_at", "run_id"}

PriceSetColsNoVolume ==
    {"open", "high", "low", "close", "adjclose",
     "range_str", "ingested_at", "run_id"}

\* the columns of DO UPDATE SET
PriceSetCols ==
    {"open", "high", "low", "close", "volume", "adjclose",
     "range_str", "ingested_at", "run_id"}

RunCols == {"run_id", "started_at", "rng", "interval", "n_rows", "note"}

\* The key of a row: its values in the key columns.
KeyOf(row, key) == [i \in DOMAIN key |-> row[key[i]]]

\* INSERT ... ON CONFLICT(key) DO UPDATE SET c = excluded.c for c in setcols
Upsert(tbl, row, key, setcols) ==
    IF \E x \in tbl : KeyOf(x, key) = KeyOf(row, key)
    THEN {IF KeyOf(x, key) = KeyOf(row, key)
          THEN [c \in DOMAIN x |-> IF c \in setcols THEN row[c] ELSE x[c]]
          ELSE x : x \in tbl}
    ELSE tbl \cup {row}

\* cursor.executemany: the statement once per tuple, in order
RECURSIVE ExecuteMany(_, _, _, _)
ExecuteMany(tbl, rows, key, setcols) ==
    IF rows = <<>> THEN tbl
    ELSE ExecuteMany(Upsert(tbl, Head(rows), key, setcols), Tail(rows), key, setcols)

InsertOrReplaceMut(tbl, row, pk) == tbl \cup {row}

\* INSERT OR REPLACE: rows conflicting on the primary key are deleted first
InsertOrReplace(tbl, row, pk) ==
    {x \in tbl : x[pk] # row[pk]} \cup {row}

\* ------------------------------------------------------------ DataFrames
\* A DataFrame: dtype and tz of its "datetime" column ("aware": one time zone
\* for the whole column; "naive": no time zone; "object": not datetime-like),
\* the set of its column names, and its rows in order.
DfCols ==
    {"datetime", "open", "high", "low", "close", "volume", "adjclose",
     "ticker", "range", "interval", "datetime_tr"}

Df(dtype, tz, cols, rows) == [dtype |-> dtype, tz |-> tz, cols |-> cols, rows |-> rows]

RequiredCols == {"ticker", "open", "high", "low", "close", "volume"}

IngestPricesErrorMut(df) ==
    IF "datetime" \notin df.cols THEN "ValueError: no datetime column"
    ELSE IF df.dtype = "object" THEN "AttributeError"
    ELSE IF (RequiredCols \ {"volume"}) \ df.cols # {}
         THEN "ValueError: Missing required columns"
    ELSE IF "adjclose" \notin df.cols THEN "KeyError"
    ELSE "ok"

\* The exception ingest_prices raises before it opens the database, "ok" if none.
IngestPricesError(df) ==
    IF "datetime" \notin df.cols THEN "ValueError: no datetime column"
    ELSE IF df.dtype = "object" THEN "AttributeError"
    ELSE IF RequiredCols \ df.cols # {}
         THEN "ValueError: Missing required columns"
    ELSE IF "adjclose" \notin df.cols THEN "KeyError"
    ELSE "ok"

\* The three timestamp strings of one value of the "datetime" column.
\* (a naive column is read as UTC for datetime_utc and kept as is for
\* datetime_local)
DatetimeUtc(df, dt) == Strftime(dt)

DatetimeLocal(df, dt) ==
    IF df.dtype = "aware" THEN Strftime(WallClock(dt, df.tz)) ELSE Strftime(dt)

DatetimeTr(df, dt) == Strftime(WallClock(dt, "Europe/Istanbul"))

\* One tuple handed to executemany: the row of d_db built from row r of df.
DbRow(df, r, rng, interval, ingested_at, run_id) ==
    [c \in PriceCols |->
        CASE c = "datetime_utc" -> DatetimeUtc(df, r["datetime"])
          [] c = "datetime_local" -> DatetimeLocal(df, r["datetime"])
          [] c = "datetime_tr" -> DatetimeTr(df, r["datetime"])
          [] c = "range_str" -> IF "range" \in df.cols THEN r["range"] ELSE rng
          [] c = "interval" -> IF "interval" \in df.cols THEN r["interval"] ELSE interval
          [] c = "ingested_at" -> ingested_at
          [] c = "run_id" -> run_id
          [] OTHER -> r[c]]

DbRows(df, rng, interval, ingested_at, run_id) ==
    [i \in 1..Len(df.rows) |-> DbRow(df, df.rows[i], rng, interval, ingested_at, run_id)]

\* str(uuid.uuid4()): a token no earlier call has seen
Uuid4(n) == "uuid-" \o ToString(n)

\* if run_id is None: run_id = str(uuid.uuid4())
RunId(run_id, n) == IF run_id = NULL THEN Uuid4(n) ELSE run_id

RunRowKeysMut(run_id, ingested_at, rng, interval, d_db, note) ==
    [run_id |-> run_id, started_at |-> ingested_at, rng |-> rng,
     interval |-> interval,
     n_rows |-> Cardinality({KeyOf(d_db[i], PriceKey) : i \in DOMAIN d_db}),
     note |-> note]

RunRowMut(run_id, ingested_at, rng, interval, d_db, note) ==
    [run_id |-> "manual", started_at |-> ingested_at, rng |-> rng,
     interval |-> interval, n_rows |-> Len(d_db), note |-> note]

\* the tuple logged into runs
RunRow(run_id, ingested_at, rng, interval, d_db, note) ==
    [run_id |-> run_id, started_at |-> ingested_at, rng |-> rng,
     interval |-> interval, n_rows |-> Len(d_db), note |-> note]

\* ---------------------------------------------------------- ingest_prices
\* (now: the second datetime.now(UTC) shows when the call reads it)
IngestPrices(df, rng, interval, run_id_arg, note, now) ==
    LET run_id == RunId(run_id_arg, nuuid)
        err == IngestPricesError(df)
        ingested_at == now
        d_db == DbRows(df, rng, interval, ingested_at, run_id)
    IN  /\ ncalls' = ncalls + 1
        /\ nuuid' = IF run_id_arg = NULL THEN nuuid + 1 ELSE nuuid
        /\ clock' = now
        /\ IF err = "ok"
           THEN /\ prices' = ExecuteMany(prices, d_db, PriceKey, PriceSetCols)
                /\ runs' = InsertOrReplace(
                               runs,
                               RunRow(run_id, ingested_at, rng, interval, d_db, note),
                               "run_id")
           ELSE UNCHANGED <<prices, runs>>
        /\ last' = [op |-> "ingest_prices", df |-> df, rng |-> rng,
                    interval |-> interval, run_id_arg |-> run_id_arg, note |-> note,
                    result |-> err,
                    run_id |-> IF err = "ok" THEN run_id ELSE NULL,
                    d_db |-> IF err = "ok" THEN d_db ELSE <<>>,
                    \* did the call meet a row already stored under one of its keys
                    hit |-> /\ err = "ok"
                            /\ \E x \in prices : \E i \in DOMAIN d_db :
                                   KeyOf(x, PriceKey) = KeyOf(d_db[i], PriceKey),
                    \* is the call the previous successful call made again
                    rerun |-> /\ last.op = "ingest_prices"
                              /\ last.result = "ok"
                              /\ last.df = df
                              /\ last.rng = rng
                              /\ last.interval = interval]
        /\ UNCHANGED <<meta, nmeta>>

\* ------------------------------------------------------------ ingest_meta
META_FIELDS ==
    <<"currency", "symbol", "exchangeName", "fullExchangeName", "instrumentType",
      "firstTradeDate", "regularMarketTime", "hasPrePostMarketData", "gmtoffset",
      "timezone", "exchangeTimezoneName", "regularMarketPrice", "fiftyTwoWeekHigh",
      "fiftyTwoWeekLow", "regularMarketDayHigh", "regularMarketDayLow",
      "regularMarketVolume", "longName", "shortName", "chartPreviousClose",
      "previousClose", "scale", "priceHint">>

MetaFields == {META_FIELDS[i] : i \in DOMAIN META_FIELDS}

\* cols = META_FIELDS + ["ingested_at", "run_id"]
MetaCols == MetaFields \cup {"ingested_at", "run_id"}

\* symbol TEXT PRIMARY KEY, the ON CONFLICT target
MetaKey == <<"symbol">>

MetaSetColsMut ==
    {"currency", "exchangeName", "fullExchangeName", "instrumentType",
     "firstTradeDate", "regularMarketTime", "hasPrePostMarketData", "gmtoffset",
     "timezone", "exchangeTimezoneName", "regularMarketPrice", "fiftyTwoWeekHigh",
     "fiftyTwoWeekLow", "regularMarketDayHigh", "regularMarketDayLow",
     "regularMarketVolume", "shortName", "chartPreviousClose",
     "previousClose", "scale", "priceHint", "ingested_at", "run_id"}

\* the columns of DO UPDATE SET
MetaSetCols ==
    {"currency", "exchangeName", "fullExchangeName", "instrumentType",
     "firstTradeDate", "regularMarketTime", "hasPrePostMarketData", "gmtoffset",
     "timezone", "exchangeTimezoneName", "regularMarketPrice", "fiftyTwoWeekHigh",
     "fiftyTwoWeekLow", "regularMarketDayHigh", "regularMarketDayLow",
     "regularMarketVolume", "longName", "shortName", "chartPreviousClose",
     "previousClose", "scale", "priceHint", "ingested_at", "run_id"}

MetaRunIdMut(run_id) == "manual"

\* run_id or "manual": None and the empty string both give "manual"
MetaRunId(run_id) == IF run_id = NULL \/ run_id = "" THEN "manual" ELSE run_id

\* d[cols] raises KeyError when a META_FIELDS column is missing
IngestMetaError(df_meta) ==
    IF MetaFields \ df_meta.cols # {} THEN "KeyError" ELSE "ok"

MetaDbRows(df_meta, ingested_at, run_id) ==
    [i \in 1..Len(df_meta.rows) |->
        [c \in MetaCols |->
            CASE c = "ingested_at" -> ingested_at
              [] c = "run_id" -> MetaRunId(run_id)
              [] OTHER -> df_meta.rows[i][c]]]

IngestMeta(df_meta, run_id_arg, now) ==
    LET err == IngestMetaError(df_meta)
        tuples == MetaDbRows(df_meta, now, run_id_arg)
    IN  /\ nmeta' = nmeta + 1
        /\ clock' = now
        /\ meta' = IF err = "ok"
                   THEN ExecuteMany(meta, tuples, MetaKey, MetaSetCols)
                   ELSE meta
        /\ last' = [op |-> "ingest_meta", df_meta |-> df_meta,
                    run_id_arg |-> run_id_arg, result |-> err, now |-> now,
                    tuples |-> IF err = "ok" THEN tuples ELSE <<>>,
                    \* did a null of the batch replace a stored non-null value
                    nulled |-> /\ err = "ok"
                               /\ \E x \in meta : \E i \in DOMAIN tuples :
                                      /\ x["symbol"] = tuples[i]["symbol"]
                                      /\ x["longName"] # NULL
                                      /\ tuples[i]["longName"] = NULL]
        /\ UNCHANGED <<prices, runs, nuuid, ncalls>>

\* ------------------------------------------------------ fetch_yahoo_chart
\* An HTTP exchange as sess.get sees it: [kind |-> "exception", exc] when the
\* call raises, else [kind |-> "http", status, parse, doc]: parse says what
\* r.json() does with the body ("fail": raises, "null": returns None,
\* "object": returns doc).  A chart document is
\*   [error: NULL or the provider's error object,
\*    result: "missing" (absent, null or []), "null_entry" ([null] or [{}])
\*            or "entry",
\*    meta: the entry's meta object, a function from its keys,
\*    timestamp: the epoch seconds (<<>> when absent, null or empty),
\*    quote: for each of open/high/low/close/volume its array (<<>> when absent),
\*    adjclose: the adjclose array (<<>> when absent)].
Hosts == <<"query1.finance.yahoo.com", "query2.finance.yahoo.com">>

CandidatesMut == Hosts

CandidatesSwapMut == <<Hosts[2], Hosts[1], Hosts[2], Hosts[1]>>

\* for host in hosts * 2
Candidates == Hosts \o Hosts

RaisesForStatusMut(status) == FALSE

\* requests.Response.raise_for_status raises HTTPError for 4xx and 5xx
RaisesForStatus(status) == status >= 400 /\ status < 600

\* The data-request loop from candidate k on: what it leaves in data and
\* last_exc, and the hosts it has asked, in order.
RECURSIVE Attempts(_, _, _, _)
Attempts(k, resps, last_exc, asked) ==
    IF k > Len(Candidates)
    THEN [got |-> FALSE, last_exc |-> last_exc, asked |-> asked]
    ELSE LET r == resps[k]
             asked2 == Append(asked, Candidates[k])
         IN  IF r.kind = "exception"
             THEN Attempts(k + 1, resps, r.exc, asked2)
             ELSE IF r.status = 429
             THEN Attempts(k + 1, resps, last_exc, asked2)
             ELSE IF RaisesForStatus(r.status)
             THEN Attempts(k + 1, resps, "HTTPError " \o ToString(r.status), asked2)
             ELSE IF r.parse = "fail"
             THEN Attempts(k + 1, resps, "JSONDecodeError", asked2)
             ELSE [got |-> r.parse = "object", doc |-> r.doc,
                   last_exc |-> last_exc, asked |-> asked2]

QuoteCols == {"open", "high", "low", "close", "volume"}

NumericStrings == {"10.5", "11.0", "10.0", "10.8", "1000", "10.7", "20.5", "21.0", "20.8"}

\* pd.to_numeric(..., errors="coerce") of one value: NaN unless it is a number
ToNumeric(v) == IF v \in NumericStrings THEN v ELSE NULL

\* df[col] = Series(values): aligned on the index 1..n; missing places are NaN
Column(values, n) ==
    [i \in 1..n |-> IF i <= Len(values) THEN ToNumeric(values[i]) ELSE NULL]

AdjColumnMut(adj_list, n) ==
    IF Len(adj_list) >= n /\ n > 0
    THEN Column(adj_list, n)
    ELSE [i \in 1..n |-> NULL]

\* adjusted close: taken only when the array is as long as the frame
AdjColumn(adj_list, n) ==
    IF adj_list # <<>> /\ Len(adj_list) = n
    THEN Column(adj_list, n)
    ELSE [i \in 1..n |-> NULL]

KnownTimezones == {"UTC", "Europe/Istanbul"}

\* dt_index.tz_convert(tz_name) raises: dt_index is a Series, and
\* Series.tz_convert converts the index of the Series, here a RangeIndex, which
\* is a TypeError for every non-empty Series; an unknown zone raises as well.
TzConvertRaises(n, tz_name) == n > 0 \/ tz_name \notin KnownTimezones

\* the zone of dt_local: the except branch keeps dt_index, which is UTC
LocalTz(n, tz_name) == IF TzConvertRaises(n, tz_name) THEN "UTC" ELSE tz_name

\* df.sort_values("datetime"): ascending by instant; equal instants keep
\* their order (an insertion sort, as numpy does for short arrays)
RECURSIVE SortInsert(_, _)
SortInsert(sorted, r) ==
    IF sorted = <<>> THEN <<r>>
    ELSE IF r["datetime"].s < sorted[Len(sorted)]["datetime"].s
         THEN Append(SortInsert(SubSeq(sorted, 1, Len(sorted) - 1), r),
                     sorted[Len(sorted)])
         ELSE Append(sorted, r)

RECURSIVE SortValues(_)
SortValues(rows) ==
    IF rows = <<>> THEN <<>>
    ELSE SortInsert(SortValues(SubSeq(rows, 1, Len(rows) - 1)), rows[Len(rows)])

MetaGet(m, k, default) == IF k \in DOMAIN m THEN m[k] ELSE default

FrameLenMut(doc) ==
    IF Len(doc.quote["open"]) < Len(doc.timestamp)
    THEN Len(doc.quote["open"]) ELSE Len(doc.timestamp)

\* df = pd.DataFrame({"datetime": dt_local}): one row per timestamp
FrameLen(doc) == Len(doc.timestamp)

\* The frame built from a result entry (lines 86-115).
BuildFrame(symbol, rng, interval, doc) ==
    LET n == FrameLen(doc)
        tz_name == MetaGet(doc.meta, "timezone", "UTC")
        rows == [i \in 1..n |->
                    [c \in DfCols |->
                        CASE c = "datetime" -> [s |-> doc.timestamp[i], ms |-> 0]
                          [] c = "datetime_tr" -> [s |-> doc.timestamp[i], ms |-> 0]
                          [] c = "ticker" -> symbol
                          [] c = "range" -> rng
                          [] c = "interval" -> interval
                          [] c = "adjclose" -> AdjColumn(doc.adjclose, n)[i]
                          [] OTHER -> Column(doc.quote[c], n)[i]]]
    IN  Df("aware", LocalTz(n, tz_name), DfCols, SortValues(rows))

ParseChartMut(symbol, rng, interval, doc) ==
    IF doc.result # "entry"
    THEN [ok |-> FALSE, exc |-> "RuntimeError",
          msg |-> "Empty 'result' for " \o symbol \o "."]
    ELSE IF doc.error # NULL
    THEN [ok |-> FALSE, exc |-> "RuntimeError",
          msg |-> "Yahoo API error for " \o symbol \o ": " \o doc.error]
    ELSE IF doc.timestamp = <<>>
    THEN [ok |-> FALSE, exc |-> "ValueError",
          msg |-> "No timestamps for " \o symbol \o "."]
    ELSE [ok |-> TRUE, df |-> BuildFrame(symbol, rng, interval, doc),
          meta |-> doc.meta]

\* What the function does with the parsed document (lines 67-79, 115).
ParseChart(symbol, rng, interval, doc) ==
    IF doc.error # NULL
    THEN [ok |-> FALSE, exc |-> "RuntimeError",
          msg |-> "Yahoo API error for " \o symbol \o ": " \o doc.error]
    ELSE IF doc.result # "entry"
    THEN [ok |-> FALSE, exc |-> "RuntimeError",
          msg |-> "Empty 'result' for " \o symbol \o "."]
    ELSE IF doc.timestamp = <<>>
    THEN [ok |-> FALSE, exc |-> "ValueError",
          msg |-> "No timestamps for " \o symbol \o "."]
    ELSE [ok |-> TRUE, df |-> BuildFrame(symbol, rng, interval, doc),
          meta |-> doc.meta]

FetchYahooChartMut(symbol, rng, interval, warm, resps) ==
    LET loop == Attempts(1, resps, "None", <<>>)
    IN  IF warm = "raise"
        THEN [requests |-> <<"finance.yahoo.com">>,
              out |-> [ok |-> FALSE, exc |-> "ConnectionError", msg |-> "warm-up"]]
        ELSE [requests |-> <<"finance.yahoo.com">> \o loop.asked,
              out |-> IF loop.got
                      THEN ParseChart(symbol, rng, interval, loop.doc)
                      ELSE [ok |-> FALSE, exc |-> "RuntimeError",
                            msg |-> "Failed to fetch " \o symbol
                                    \o ". Last error: " \o loop.last_exc]]

\* fetch_yahoo_chart(symbol, rng, interval, session=sess) against a server
\* that answers the warm-up with warm ("ok" or "raise") and the k-th data
\* request with resps[k].  requests: the hosts asked, in order.
FetchYahooChart(symbol, rng, interval, warm, resps) ==
    LET loop == Attempts(1, resps, "None", <<>>)
        requests == <<"finance.yahoo.com">> \o loop.asked
        out == IF loop.got
               THEN ParseChart(symbol, rng, interval, loop.doc)
               ELSE [ok |-> FALSE, exc |-> "RuntimeError",
                     msg |-> "Failed to fetch " \o symbol \o ". Last error: "
                             \o loop.last_exc]
    IN  [requests |-> requests, out |-> out]

\* ------------------------------------------------------------ fetch_batch
\* A dict: the sequence of its <<key, value>> items in insertion order.
DictKeys(d) == {d[j][1] : j \in DOMAIN d}

DictSet(d, k, v) ==
    IF k \in DictKeys(d)
    THEN [j \in DOMAIN d |-> IF d[j][1] = k THEN <<k, v>> ELSE d[j]]
    ELSE Append(d, <<k, v>>)

RECURSIVE ConcatRows(_)
ConcatRows(frames) ==
    IF frames = <<>> THEN <<>>
    ELSE ConcatRows(SubSeq(frames, 1, Len(frames) - 1)) \o frames[Len(frames)].rows

\* pd.concat(frames, ignore_index=True), or the empty frame with its eight
\* columns when nothing was fetched.  Columns of one time zone stay
\* tz-aware; columns of several become dtype object.
ConcatFrames(frames) ==
    IF frames = <<>>
    THEN Df("object", NULL,
            {"datetime", "open", "high", "low", "close", "volume", "adjclose", "ticker"},
            <<>>)
    ELSE IF \A j \in DOMAIN frames :
                frames[j].dtype = "aware" /\ frames[j].tz = frames[1].tz
         THEN Df("aware", frames[1].tz, DfCols, ConcatRows(frames))
         ELSE Df("object", NULL, DfCols, ConcatRows(frames))

\* fetch_batch(symbols, rng, interval) is entered.
EnterFetchBatch(symbols, rng, interval) ==
    [pc |-> "loop", symbols |-> symbols, rng |-> rng, interval |-> interval,
     i |-> 1, frames |-> <<>>, metas |-> <<>>, errors |-> <<>>,
     fetched |-> <<>>]    \* fetched: the calls of fetch_yahoo_chart made, with results

OnSuccessMut(f, sym, df_sym, meta_obj) ==
    [f EXCEPT !.frames = Append(f.frames, df_sym)]

\* the try branch: frames.append(df_sym); metas[sym] = meta
OnSuccess(f, sym, df_sym, meta_obj) ==
    [f EXCEPT !.frames = Append(f.frames, df_sym),
              !.metas = DictSet(f.metas, sym, meta_obj)]

OnErrorMut(f, sym, msg) == f

\* the except branch: errors[sym] = str(e)
OnError(f, sym, msg) ==
    [f EXCEPT !.errors = DictSet(f.errors, sym, msg)]

\* One turn of the loop: symbol i is fetched from a server that behaves as
\* srv, and the outcome is filed.
FetchStep(servers) ==
    /\ fb.pc = "loop"
    /\ fb.i <= Len(fb.symbols)
    /\ \E srv \in servers :
             LET sym == fb.symbols[fb.i]
                 r == FetchYahooChart(sym, fb.rng, fb.interval,
                                      srv.warm, srv.resps)
                 filed == IF r.out.ok
                          THEN OnSuccess(fb, sym, r.out.df, r.out.meta)
                          ELSE OnError(fb, sym, r.out.msg)
             IN  fb' = [filed EXCEPT
                          !.i = fb.i + 1,
                          !.fetched = Append(fb.fetched,
                                             [symbol |-> sym, out |-> r.out])]

\* The loop is over: the frames are concatenated and the three results returned.
FinishBatch ==
    /\ fb.pc = "loop"
    /\ fb.i > Len(fb.symbols)
    /\ fb' = [pc |-> "done", symbols |-> fb.symbols, fetched |-> fb.fetched,
              df_all |-> ConcatFrames(fb.frames),
              metas |-> fb.metas, errors |-> fb.errors]

\* ------------------------------------------------------------ metas_to_df
\* row = {k: m.get(k) for k in META_FIELDS}; row["symbol"] = row["symbol"] or sym
MetaDfRow(sym, m) ==
    [k \in MetaFields |->
        IF k = "symbol"
        THEN (IF MetaGet(m, k, NULL) \in {NULL, ""} THEN sym ELSE m[k])
        ELSE MetaGet(m, k, NULL)]

MetasToDf(metas) ==
    [cols |-> MetaFields,
     rows |-> [j \in DOMAIN metas |-> MetaDfRow(metas[j][1], metas[j][2])]]

\* ------------------------------------------------------------------- main
\* (the first two of the hundred symbols of the list, which has no repeats)
BIST_SUBSET == <<"BTCIM.IS", "KOZAL.IS">>

\* main is entered: the arguments are parsed and fetch_batch is called.
MainStart(range_, interval) ==
    /\ cli.pc \in {"idle", "returned", "raised"}
    /\ cli' = [pc |-> "fetch_batch", inv |-> cli.inv + 1,
               range_ |-> range_, interval |-> interval]
    /\ fb' = EnterFetchBatch(BIST_SUBSET, range_, interval)

\* fetch_batch has returned; save_bist writes the two files, or fails to.
MainSave(io) ==
    /\ cli.pc = "fetch_batch"
    /\ fb.pc = "done"
    /\ cli' = IF io = "ok"
              THEN [cli EXCEPT !.pc = "save_bist"]
              ELSE [pc |-> "raised", inv |-> cli.inv, exc |-> io]

\* init_db: CREATE TABLE IF NOT EXISTS leaves existing tables as they are.
MainInitDb ==
    /\ cli.pc = "save_bist"
    /\ cli' = [cli EXCEPT !.pc = "init_db"]

\* df_meta = metas_to_df(metas); run_id = ingest_prices(df_all, ...,
\* note="version 0.1.0"), with no run_id given.
MainIngestPrices(now) ==
    /\ cli.pc = "init_db"
    /\ IngestPrices(fb.df_all, cli.range_, cli.interval, NULL, "version 0.1.0", now)
    /\ cli' = IF last'.result = "ok"
              THEN [pc |-> "ingest_prices", inv |-> cli.inv,
                    df_meta |-> MetasToDf(fb.metas),
                    run_id |-> last'.run_id, d_db |-> last'.d_db]
              ELSE [pc |-> "raised", inv |-> cli.inv, exc |-> last'.result]

MainIngestMetaMut(now) ==
    /\ cli.pc = "ingest_prices"
    /\ IngestMeta(cli.df_meta, NULL, now)
    /\ cli' = [pc |-> "returned", inv |-> cli.inv, code |-> 0,
               df_meta |-> cli.df_meta, run_id |-> cli.run_id, d_db |-> cli.d_db]

\* ingest_meta(df_meta, run_id=run_id); return 0
MainIngestMeta(now) ==
    /\ cli.pc = "ingest_prices"
    /\ IngestMeta(cli.df_meta, cli.run_id, now)
    /\ cli' = IF last'.result = "ok"
              THEN [pc |-> "returned", inv |-> cli.inv, code |-> 0,
                    df_meta |-> cli.df_meta, run_id |-> cli.run_id,
                    d_db |-> cli.d_db]
              ELSE [pc |-> "raised", inv |-> cli.inv, exc |-> last'.result]

\* ------------------------------------------------- inputs of ingest_prices
\* The quote values of a bar, in two versions; the second has nulls.
Quote(v, c) ==
    IF v = "v1"
    THEN CASE c = "open" -> "10.5" [] c = "high" -> "11.0" [] c = "low" -> "10.0"
           [] c = "close" -> "10.8" [] c = "volume" -> "1000" [] OTHER -> "10.7"
    ELSE CASE c = "open" -> "20.5" [] c = "high" -> "21.0" [] c = "low" -> NULL
           [] c = "close" -> "20.8" [] c = "volume" -> NULL [] OTHER -> NULL

\* A row of a DataFrame as fetch_yahoo_chart shapes it.
Bar(t, s, ms, v, rng, interval) ==
    [c \in DfCols |->
        CASE c = "datetime" -> [s |-> s, ms |-> ms]
          [] c = "datetime_tr" -> [s |-> s, ms |-> ms]
          [] c = "ticker" -> t
          [] c = "range" -> rng
          [] c = "interval" -> interval
          [] OTHER -> Quote(v, c)]

BarA1 == Bar("A", 1700000000, 0, "v1", "60d", "5m")
BarA2 == Bar("A", 1700000000, 500, "v2", "60d", "5m")   \* same second as BarA1
BarB1 == Bar("B", 1700000300, 0, "v1", "60d", "5m")

\* Well-formed batches: one key, the same key again within the second, a key
\* repeated inside the batch, two keys, no rows, and other time zones.
GoodDfs ==
    {Df("aware", "Europe/Istanbul", DfCols, rows) :
        rows \in {<<>>, <<BarA1>>, <<BarA2>>, <<BarA1, BarA2>>, <<BarA1, BarB1>>}}
    \cup {Df("aware", "UTC", DfCols, <<BarA1>>),
          Df("naive", NULL, DfCols, <<BarA2>>)}

\* Batches ingest_prices rejects: a column missing, or fetch_batch's empty
\* frame, whose "datetime" column has dtype object.
BadDfs ==
    {Df("aware", "Europe/Istanbul", DfCols \ {c}, <<BarA1, BarB1>>) :
        c \in {"volume", "ticker", "datetime", "adjclose"}}
    \cup {Df("object", NULL,
             {"datetime", "open", "high", "low", "close", "volume", "adjclose", "ticker"},
             <<>>)}

\* A batch without range and interval columns: both come from the arguments.
BareDf == Df("aware", "Europe/Istanbul", DfCols \ {"range", "interval"}, <<BarA1>>)

PriceCalls ==
    {[df |-> df, rng |-> "60d", interval |-> "5m", run_id |-> rid, note |-> NULL] :
        df \in GoodDfs, rid \in {NULL, "r1"}}
    \cup {[df |-> df, rng |-> "60d", interval |-> "5m", run_id |-> NULL, note |-> NULL] :
        df \in BadDfs}
    \cup {[df |-> BareDf, rng |-> "1y", interval |-> "1d", run_id |-> rid,
           note |-> "version 0.1.0"] : rid \in {NULL, "r1"}}

\* --------------------------------------------------- the persistence layer
Init ==
    /\ prices = {}
    /\ runs = {}
    /\ meta = {}
    /\ clock = 1700001000
    /\ nuuid = 0
    /\ ncalls = 0
    /\ nmeta = 0
    /\ last = [op |-> "init_db"]
    /\ fb = [pc |-> "idle"]
    /\ cli = [pc |-> "idle", inv |-> 0]

\* The clock does not run backwards; two calls may fall in the same second.
Now == {clock, clock + 1}

CallIngestPrices ==
    /\ ncalls < MaxCalls
    /\ \E c \in PriceCalls, now \in Now :
        IngestPrices(c.df, c.rng, c.interval, c.run_id, c.note, now)
    /\ UNCHANGED <<fb, cli>>

NextDb == CallIngestPrices

SpecDb == Init /\ [][NextDb]_vars

\* --------------------------------------------------- inputs of ingest_meta
\* A metadata row in two versions; the second has nulls.
MetaRow(sym, v) ==
    [c \in MetaFields |->
        IF c = "symbol" THEN sym
        ELSE IF v = "m2" /\ c \in {"longName", "currency", "regularMarketPrice"}
             THEN NULL
             ELSE v \o "-" \o c]

DfMeta(cols, rows) == [cols |-> cols, rows |-> rows]

MetaDfs ==
    {DfMeta(MetaFields, rows) :
        rows \in {<<>>, <<MetaRow("A", "m1")>>, <<MetaRow("A", "m2")>>,
                  <<MetaRow("B", "m1")>>,
                  <<MetaRow("A", "m2"), MetaRow("A", "m1")>>,
                  <<MetaRow("A", "m2"), MetaRow("B", "m2")>>}}
    \cup {DfMeta(MetaFields \ {"priceHint"}, <<MetaRow("A", "m1")>>)}

CallIngestMeta ==
    /\ nmeta < MaxMetaCalls
    /\ \E df_meta \in MetaDfs, rid \in {NULL, "", "r1"}, now \in Now :
        IngestMeta(df_meta, rid, now)
    /\ UNCHANGED <<fb, cli>>

NextMeta == CallIngestMeta

SpecMeta == Init /\ [][NextMeta]_vars

\* ---------------------------------------------- inputs of fetch_yahoo_chart
MetaObj(symbol, tz) ==
    [k \in {"symbol", "currency", "timezone", "exchangeTimezoneName", "longName"} |->
        CASE k = "symbol" -> symbol
          [] k = "currency" -> "TRY"
          [] k = "timezone" -> tz
          [] k = "exchangeTimezoneName" -> "Europe/Istanbul"
          [] OTHER -> "name of " \o symbol]

ChartDoc(error, result, meta_obj, timestamp, quote, adjclose) ==
    [error |-> error, result |-> result, meta |-> meta_obj,
     timestamp |-> timestamp, quote |-> quote, adjclose |-> adjclose]

NoQuote == [c \in QuoteCols |-> <<>>]

\* two bars, given latest first, with adjusted close
DocTwoBars(symbol) ==
    ChartDoc(NULL, "entry", MetaObj(symbol, "Europe/Istanbul"),
             <<1700000300, 1700000000>>,
             [c \in QuoteCols |-> <<Quote("v2", c), Quote("v1", c)>>],
             <<"20.8", "10.7">>)

\* one bar, no adjusted close
DocOneBar(symbol) ==
    ChartDoc(NULL, "entry", MetaObj(symbol, "Europe/Istanbul"),
             <<1700000000>>,
             [c \in QuoteCols |-> <<Quote("v1", c)>>],
             <<>>)

GoodDocs(symbol) == {DocTwoBars(symbol), DocOneBar(symbol)}

BadDocs(symbol) ==
    {ChartDoc("Not Found", "missing", MetaObj(symbol, "UTC"), <<>>, NoQuote, <<>>),
     ChartDoc(NULL, "missing", MetaObj(symbol, "UTC"), <<>>, NoQuote, <<>>),
     ChartDoc(NULL, "entry", MetaObj(symbol, "UTC"), <<>>, NoQuote, <<>>)}

Http(status, parse, doc) == [kind |-> "http", status |-> status, parse |-> parse, doc |-> doc]

Raised(exc) == [kind |-> "exception", exc |-> exc]

TooManyRequests == Http(429, "fail", NULL)

FailedExchanges ==
    {Raised("ConnectionError"), TooManyRequests, Http(404, "fail", NULL),
     Http(200, "fail", NULL), Http(200, "null", NULL)}

Exchanges(symbol) ==
    FailedExchanges
    \cup {Http(404, "object", DocOneBar(symbol))}
    \cup {Http(200, "object", doc) : doc \in GoodDocs(symbol) \cup BadDocs(symbol)}

\* A call of fetch_yahoo_chart about to be made, against any four answers.
FetchCalls ==
    {[op |-> "call fetch_yahoo_chart", symbol |-> "A", warm |-> warm, resps |-> resps] :
        warm \in {"ok", "raise"}, resps \in [1..4 -> Exchanges("A")]}

InitFetch ==
    /\ prices = {}
    /\ runs = {}
    /\ meta = {}
    /\ clock = 1700001000
    /\ nuuid = 0
    /\ ncalls = 0
    /\ nmeta = 0
    /\ last \in FetchCalls
    /\ fb = [pc |-> "idle"]
    /\ cli = [pc |-> "idle", inv |-> 0]

\* The call runs to its end.
DoFetch ==
    /\ last.op = "call fetch_yahoo_chart"
    /\ last' = [op |-> "fetch_yahoo_chart", symbol |-> last.symbol,
                warm |-> last.warm, resps |-> last.resps,
                fetch |-> FetchYahooChart(last.symbol, "60d", "5m",
                                          last.warm, last.resps)]
    /\ UNCHANGED <<prices, runs, meta, clock, nuuid, ncalls, nmeta, fb, cli>>

NextFetch == DoFetch

SpecFetch == InitFetch /\ [][NextFetch]_vars

\* ------------------------------------------- chart documents of all shapes
\* n timestamps five minutes apart, latest first or earliest first
Stamps(n, order) ==
    [i \in 1..n |-> 1700000000 + 300 * (IF order = "desc" THEN n - i ELSE i - 1)]

TsLists == {Stamps(n, order) : n \in 0..MaxBars, order \in {"desc", "asc"}}

\* the value at place i of a quote array
QuoteAt(c, i) == IF i = 1 THEN Quote("v1", c) ELSE Quote("v2", c)

\* quote arrays: volume of length kv, the other four of length k
QuoteArrays(k, kv) ==
    [c \in QuoteCols |-> [i \in 1..(IF c = "volume" THEN kv ELSE k) |-> QuoteAt(c, i)]]

AdjArray(k) == [i \in 1..k |-> IF i = 1 THEN "10.7" ELSE "20.8"]

\* a meta object that names no time zone
MetaNoTz(symbol) ==
    [k \in {"symbol", "currency"} |-> IF k = "symbol" THEN symbol ELSE "TRY"]

ParseMetas(symbol) ==
    {MetaNoTz(symbol)}
    \cup {MetaObj(symbol, tz) : tz \in {"UTC", "Europe/Istanbul", "Mars/Phobos"}}

ParseDocs(symbol) ==
    {ChartDoc(e, res, m, ts, QuoteArrays(k, kv), AdjArray(ka)) :
        e \in {NULL, "Not Found"}, res \in {"missing", "null_entry", "entry"},
        m \in ParseMetas(symbol), ts \in TsLists,
        k \in 0..(MaxBars + 1), kv \in 0..(MaxBars + 1), ka \in 0..(MaxBars + 1)}

\* A call of fetch_yahoo_chart whose first data request is answered 200 with
\* a JSON object of any of these shapes.
ParseCalls ==
    {[op |-> "call fetch_yahoo_chart", symbol |-> "A", warm |-> warm,
      resps |-> <<Http(200, "object", doc), TooManyRequests,
                  TooManyRequests, TooManyRequests>>] :
        warm \in {"ok", "raise"}, doc \in ParseDocs("A")}

InitParse ==
    /\ prices = {}
    /\ runs = {}
    /\ meta = {}
    /\ clock = 1700001000
    /\ nuuid = 0
    /\ ncalls = 0
    /\ nmeta = 0
    /\ last \in ParseCalls
    /\ fb = [pc |-> "idle"]
    /\ cli = [pc |-> "idle", inv |-> 0]

NextParse == DoFetch

SpecParse == InitParse /\ [][NextParse]_vars

\* --------------------------------------------------- inputs of fetch_batch
\* Servers as one fetch of a symbol meets them: the warm-up's fate and the
\* four answers to the data requests.
Server(warm, r1, r2, r3, r4) == [warm |-> warm, resps |-> <<r1, r2, r3, r4>>]

AllSame(warm, r) == Server(warm, r, r, r, r)

\* one that answers at once, and one that answers after two 429s
GoodServers(sym) ==
    {AllSame("ok", Http(200, "object", DocOneBar(sym))),
     Server("raise", TooManyRequests, TooManyRequests,
            Http(200, "object", DocTwoBars(sym)), Raised("ConnectionError"))}

\* one that is down, one that only answers 429, one that reports an error
BadServers(sym) ==
    {AllSame("raise", Raised("ConnectionError")),
     AllSame("ok", TooManyRequests),
     AllSame("ok", Http(200, "object",
                        ChartDoc("Not Found", "missing", MetaObj(sym, "UTC"),
                                 <<>>, NoQuote, <<>>)))}

Servers(sym) == GoodServers(sym) \cup BadServers(sym)

RECURSIVE SeqsUpTo(_, _)
SeqsUpTo(S, n) ==
    IF n = 0 THEN {<<>>}
    ELSE LET shorter == SeqsUpTo(S, n - 1)
         IN  shorter \cup {Append(q, x) : q \in {t \in shorter : Len(t) = n - 1}, x \in S}

SymbolLists == SeqsUpTo({"A", "B", "C"}, MaxSymbols)

CallFetchBatch ==
    /\ fb.pc = "idle"
    /\ \E symbols \in SymbolLists : fb' = EnterFetchBatch(symbols, "60d", "5m")
    /\ UNCHANGED <<prices, runs, meta, clock, nuuid, ncalls, nmeta, last, cli>>

BatchFetchStep ==
    /\ FetchStep(Servers(fb.symbols[fb.i]))
    /\ UNCHANGED <<prices, runs, meta, clock, nuuid, ncalls, nmeta, last, cli>>

BatchFinish ==
    /\ FinishBatch
    /\ UNCHANGED <<prices, runs, meta, clock, nuuid, ncalls, nmeta, last, cli>>

NextBatch == CallFetchBatch \/ BatchFetchStep \/ BatchFinish

SpecBatch == Init /\ [][NextBatch]_vars

\* ---------------------------------------------------------- the pipeline
\* Servers of the command line's runs: two that answer and one that is down.
MainServers(sym) == GoodServers(sym) \cup {AllSame("raise", Raised("ConnectionError"))}

CliStart ==
    /\ cli.inv < MaxInvocations
    /\ MainStart("60d", "5m")
    /\ UNCHANGED <<prices, runs, meta, clock, nuuid, ncalls, nmeta, last>>

CliFetchStep ==
    /\ cli.pc = "fetch_batch"
    /\ FetchStep(MainServers(fb.symbols[fb.i]))
    /\ UNCHANGED <<prices, runs, meta, clock, nuuid, ncalls, nmeta, last, cli>>

CliFinishBatch ==
    /\ cli.pc = "fetch_batch"
    /\ FinishBatch
    /\ UNCHANGED <<prices, runs, meta, clock, nuuid, ncalls, nmeta, last, cli>>

CliSave ==
    /\ \E io \in {"ok", "OSError"} : MainSave(io)
    /\ UNCHANGED <<prices, runs, meta, clock, nuuid, ncalls, nmeta, last, fb>>

CliInitDb ==
    /\ MainInitDb
    /\ UNCHANGED <<prices, runs, meta, clock, nuuid, ncalls, nmeta, last, fb>>

CliIngestPrices ==
    /\ \E now \in Now : MainIngestPrices(now)
    /\ UNCHANGED fb

CliIngestMeta ==
    /\ \E now \in Now : MainIngestMeta(now)
    /\ UNCHANGED fb

NextMain ==
    \/ CliStart \/ CliFetchStep \/ CliFinishBatch \/ CliSave
    \/ CliInitDb \/ CliIngestPrices \/ CliIngestMeta

SpecMain == Init /\ [][NextMain]_vars

\* ================================================================ claims
\* The natural key of a stored bar, written out column by column.
NaturalKey(x) == <<x["ticker"], x["datetime_utc"], x["interval"]>>

BatchKeys(d_db) == {NaturalKey(d_db[i]) : i \in DOMAIN d_db}

\* The last tuple of the batch that carries key k: the one whose values stay.
Latest(d_db, k) ==
    LET is == {i \in DOMAIN d_db : NaturalKey(d_db[i]) = k}
    IN  d_db[CHOOSE i \in is : \A j \in is : j <= i]

\* A step that is a successful ingest_prices call.
IngestOk == ncalls' = ncalls + 1 /\ last'.op = "ingest_prices" /\ last'.result = "ok"

\* A successful ingest_prices call that repeats the previous successful call
\* with the same batch, range and interval.
IngestAgain ==
    /\ IngestOk
    /\ last.op = "ingest_prices" /\ last.result = "ok"
    /\ last'.df = last.df /\ last'.rng = last.rng /\ last'.interval = last.interval

\* Every key of the batch is stored once, with the latest call's value in
\* each column of cols.
StoredAsGiven(tbl, d_db, cols) ==
    \A k \in BatchKeys(d_db) :
        /\ Cardinality({x \in tbl : NaturalKey(x) = k}) = 1
        /\ \A x \in tbl : NaturalKey(x) = k =>
               \A c \in cols : x[c] = Latest(d_db, k)[c]

NonKeyCols == PriceCols \ {"ticker", "datetime_utc", "interval"}

\* C1 as stated: re-running ingest_prices with an identical batch leaves the
\* number of rows of prices unchanged and every non-key field of each
\* affected row equal to the value supplied by the latest call.
C1_RerunAllNonKeyFields ==
    [][IngestAgain =>
          /\ Cardinality(prices') = Cardinality(prices)
          /\ StoredAsGiven(prices', last'.d_db, NonKeyCols)]_vars

\* C1 as amended: re-running ingest_prices with an identical batch leaves the
\* number of rows of prices unchanged and every non-key field other than
\* datetime_local equal to the value supplied by the latest call.
C1_RerunIdempotent ==
    [][IngestAgain =>
          /\ Cardinality(prices') = Cardinality(prices)
          /\ StoredAsGiven(prices', last'.d_db, NonKeyCols \ {"datetime_local"})]_vars

\* C1 witness: a non-empty batch was ingested twice in a row into a database
\* that already held one of its keys.
C1_Witness ==
    /\ last.op = "ingest_prices" /\ last.result = "ok"
    /\ last.rerun /\ last.hit
    /\ Len(last.d_db) = 2
    /\ ncalls = 3

\* C2: no two rows of prices share the same (ticker, datetime_utc, interval).
C2_KeyUnique ==
    \A x, y \in prices : NaturalKey(x) = NaturalKey(y) => x = y

\* C2 witness: a batch that repeats a key inside itself was ingested over a
\* stored row of that key written under another run identifier.
C2_Witness ==
    /\ last.op = "ingest_prices" /\ last.result = "ok" /\ last.hit
    /\ Len(last.d_db) = 2
    /\ NaturalKey(last.d_db[1]) = NaturalKey(last.d_db[2])
    /\ last.d_db[1] # last.d_db[2]
    /\ Cardinality(runs) >= 2

\* C3: an ingest_prices call whose batch lacks a required column raises a
\* ValueError and leaves prices and runs exactly as they were.
C3_MissingColumnNoWrite ==
    [][(/\ ncalls' = ncalls + 1
        /\ last'.op = "ingest_prices"
        /\ RequiredCols \ last'.df.cols # {})
       => /\ last'.result \in {"ValueError: Missing required columns",
                               "ValueError: no datetime column"}
          /\ prices' = prices
          /\ runs' = runs]_vars

\* C3 witness: a batch with rows but no volume column was rejected by a
\* database that holds rows.
C3_Witness ==
    /\ last.op = "ingest_prices"
    /\ "volume" \notin last.df.cols
    /\ Len(last.df.rows) > 0
    /\ last.result = "ValueError: Missing required columns"
    /\ prices # {} /\ runs # {}

\* C7: a successful ingest_prices call leaves exactly one row of runs for the
\* run identifier it returns, with this call's n_rows, range, interval and
\* note; the other rows of runs stay, and no stored price row whose key is
\* not in the batch is deleted or changed, those written earlier under the
\* same run identifier included.
C7_OneRunRow ==
    [][IngestOk =>
          LET rid == last'.run_id
              mine == {x \in runs' : x.run_id = rid}
          IN  /\ Cardinality(mine) = 1
              /\ \A x \in mine :
                    /\ x.n_rows = Len(last'.df.rows)
                    /\ x.rng = last'.rng
                    /\ x.interval = last'.interval
                    /\ x.note = last'.note
              /\ {x \in runs' : x.run_id # rid} = {x \in runs : x.run_id # rid}
              /\ \A x \in prices :
                    NaturalKey(x) \notin BatchKeys(last'.d_db) => x \in prices']_vars

\* C7 witness: a call reused a run identifier under which an earlier call
\* had written a bar that this call's batch does not contain.
C7_Witness ==
    /\ last.op = "ingest_prices" /\ last.result = "ok"
    /\ last.run_id_arg = "r1"
    /\ Len(last.d_db) > 0
    /\ \E x \in prices :
          /\ x["run_id"] = "r1"
          /\ NaturalKey(x) \notin BatchKeys(last.d_db)
    /\ \E x \in runs : x.run_id # "r1"

OverwrittenCols ==
    {"open", "high", "low", "close", "volume", "adjclose",
     "range_str", "ingested_at", "run_id"}

\* C10: when ingest_prices meets a stored row with a key of the batch, that
\* row's open, high, low, close, volume, adjclose, range tag, ingestion
\* timestamp and run identifier become the new call's values, the row keeps
\* its key (the key is still stored, once), and every row whose key is not
\* in the batch is left unchanged.
C10_ConflictOverwrites ==
    [][IngestOk =>
          /\ \A x \in prices :
                IF NaturalKey(x) \in BatchKeys(last'.d_db)
                THEN \E y \in prices' :
                        /\ NaturalKey(y) = NaturalKey(x)
                        /\ \A z \in prices' : NaturalKey(z) = NaturalKey(x) => z = y
                        /\ \A c \in OverwrittenCols :
                              y[c] = Latest(last'.d_db, NaturalKey(x))[c]
                ELSE x \in prices'
          /\ \A y \in prices' :
                NaturalKey(y) \notin BatchKeys(last'.d_db) => y \in prices]_vars

\* C10 witness: a call met a stored row of one of its keys, written under
\* another run identifier with other values, beside a row it left alone.
C10_Witness ==
    /\ last.op = "ingest_prices" /\ last.result = "ok" /\ last.hit
    /\ ncalls >= 2
    /\ \E x \in prices : NaturalKey(x) \notin BatchKeys(last.d_db)
    /\ \E x \in prices :
          /\ NaturalKey(x) \in BatchKeys(last.d_db)
          /\ x["datetime_local"] # Latest(last.d_db, NaturalKey(x))["datetime_local"]

MetaLatest(tuples, sym) ==
    LET is == {i \in DOMAIN tuples : tuples[i]["symbol"] = sym}
    IN  tuples[CHOOSE i \in is : \A j \in is : j <= i]

MetaNonKeyCols ==
    {"currency", "exchangeName", "fullExchangeName", "instrumentType",
     "firstTradeDate", "regularMarketTime", "hasPrePostMarketData", "gmtoffset",
     "timezone", "exchangeTimezoneName", "regularMarketPrice", "fiftyTwoWeekHigh",
     "fiftyTwoWeekLow", "regularMarketDayHigh", "regularMarketDayLow",
     "regularMarketVolume", "longName", "shortName", "chartPreviousClose",
     "previousClose", "scale", "priceHint", "ingested_at", "run_id"}

\* C9: after a successful ingest_meta call, meta holds exactly one row for
\* each symbol of the batch, every non-key field of which is the value the
\* call gave (nulls included; ingested_at the call's time; run_id the
\* caller's, or "manual" when none was supplied), and the rows of the other
\* symbols are as they were, so that meta holds at most one row per symbol
\* and each row shows the latest call that contained its symbol.
C9_MetaFullRowUpsert ==
    [][(nmeta' = nmeta + 1 /\ last'.op = "ingest_meta" /\ last'.result = "ok") =>
          LET syms == {last'.df_meta.rows[i]["symbol"] : i \in DOMAIN last'.df_meta.rows}
          IN  /\ \A sym \in syms :
                    /\ Cardinality({x \in meta' : x["symbol"] = sym}) = 1
                    /\ \A x \in meta' : x["symbol"] = sym =>
                          /\ \A c \in MetaNonKeyCols \ {"ingested_at", "run_id"} :
                                x[c] = MetaLatest(last'.df_meta.rows, sym)[c]
                          /\ x["ingested_at"] = last'.now
                          /\ last'.run_id_arg = NULL => x["run_id"] = "manual"
                          /\ last'.run_id_arg \notin {NULL, ""} =>
                                x["run_id"] = last'.run_id_arg
              /\ {x \in meta' : x["symbol"] \notin syms}
                    = {x \in meta : x["symbol"] \notin syms}
              /\ \A x, y \in meta' : x["symbol"] = y["symbol"] => x = y]_vars

\* C9 witness: a call without run identifier stored a null over a non-null
\* value of a symbol an earlier call had stored, beside another symbol's row.
C9_Witness ==
    /\ last.op = "ingest_meta" /\ last.result = "ok"
    /\ last.nulled
    /\ last.run_id_arg = NULL
    /\ \E x \in meta : x["symbol"] = "A" /\ x["longName"] = NULL /\ x["run_id"] = "manual"
    /\ \E x \in meta : x["symbol"] = "B"

\* A document from which rows are produced.
ValidDoc(doc) == doc.error = NULL /\ doc.result = "entry" /\ doc.timestamp # <<>>

\* The data requests were answered 429, 429 and then 200 with a valid body.
TwiceLimitedThenOk ==
    /\ last.op = "fetch_yahoo_chart"
    /\ last.resps[1] = TooManyRequests
    /\ last.resps[2] = TooManyRequests
    /\ last.resps[3].kind = "http" /\ last.resps[3].status = 200
    /\ last.resps[3].parse = "object" /\ ValidDoc(last.resps[3].doc)

\* C6: a fetch whose data requests receive 429, 429 and then 200 with a valid
\* body returns the rows and the metadata of that third body (one row per
\* timestamp of it, for the symbol) and raises nothing; the fourth candidate
\* is not asked.
C6_RetryThenSuccess ==
    TwiceLimitedThenOk =>
        LET doc == last.resps[3].doc
            out == last.fetch.out
        IN  /\ out.ok
            /\ out.meta = doc.meta
            /\ Len(out.df.rows) = Len(doc.timestamp)
            /\ {r["datetime"].s : r \in {out.df.rows[i] : i \in DOMAIN out.df.rows}}
                  = {doc.timestamp[i] : i \in DOMAIN doc.timestamp}
            /\ \A i \in DOMAIN out.df.rows : out.df.rows[i]["ticker"] = last.symbol
            /\ out = ParseChart(last.symbol, "60d", "5m", doc)
            /\ last.fetch.requests =
                  <<"finance.yahoo.com", Hosts[1], Hosts[2], Hosts[1]>>

\* C6 witness: such a fetch, whose warm-up raised and whose fourth answer
\* would have been another valid body.
C6_Witness ==
    /\ TwiceLimitedThenOk
    /\ last.warm = "raise"
    /\ last.resps[4].kind = "http" /\ last.resps[4].parse = "object"
    /\ ValidDoc(last.resps[4].doc)
    /\ last.resps[4].doc # last.resps[3].doc
    /\ last.fetch.out.ok

\* The rows of the successful fetches, in the order the fetches were made.
RECURSIVE RowsOfSuccesses(_)
RowsOfSuccesses(fetched) ==
    IF fetched = <<>> THEN <<>>
    ELSE LET f == fetched[Len(fetched)]
         IN  RowsOfSuccesses(SubSeq(fetched, 1, Len(fetched) - 1))
             \o (IF f.out.ok THEN f.out.df.rows ELSE <<>>)

Raisers(fetched) == {fetched[j].symbol : j \in {k \in DOMAIN fetched : ~fetched[k].out.ok}}

Succeeders(fetched) == {fetched[j].symbol : j \in {k \in DOMAIN fetched : fetched[k].out.ok}}

\* C4: whichever fetches raise, fetch_batch fetches the symbols one by one in
\* input order up to the last one, returns in the aggregate the rows of
\* every successful fetch, and records an error for exactly the symbols
\* whose fetch raised.
C4_FailureIsolated ==
    /\ fb.pc \in {"idle", "loop", "done"}
    /\ fb.pc = "loop" =>
          /\ Len(fb.fetched) = fb.i - 1
          /\ fb.i <= Len(fb.symbols) + 1
          /\ \A j \in DOMAIN fb.fetched : fb.fetched[j].symbol = fb.symbols[j]
          /\ DictKeys(fb.errors) = Raisers(fb.fetched)
    /\ fb.pc = "done" =>
          /\ Len(fb.fetched) = Len(fb.symbols)
          /\ \A j \in DOMAIN fb.fetched : fb.fetched[j].symbol = fb.symbols[j]
          /\ fb.df_all.rows = RowsOfSuccesses(fb.fetched)
          /\ DictKeys(fb.errors) = Raisers(fb.fetched)
          /\ \A j \in DOMAIN fb.errors :
                \E k \in DOMAIN fb.fetched :
                    /\ ~fb.fetched[k].out.ok
                    /\ fb.errors[j] = <<fb.fetched[k].symbol, fb.fetched[k].out.msg>>

\* C4 witness: of three symbols the second raised, the first and the third
\* were fetched, and only the second has an error entry.
C4_Witness ==
    /\ fb.pc = "done"
    /\ fb.symbols = <<"A", "B", "C">>
    /\ fb.fetched[1].out.ok /\ ~fb.fetched[2].out.ok /\ fb.fetched[3].out.ok
    /\ DictKeys(fb.errors) = {"B"}
    /\ {r["ticker"] : r \in {fb.df_all.rows[i] : i \in DOMAIN fb.df_all.rows}} = {"A", "C"}

InputSymbols == {fb.symbols[j] : j \in DOMAIN fb.symbols}

NoRepeats == \A j, k \in DOMAIN fb.symbols : fb.symbols[j] = fb.symbols[k] => j = k

\* C5 as stated: for every input sequence, repeats included, the number of
\* fetches equals the input length, every input symbol is a key of exactly
\* one of metas and errors, and successes plus failures equals the input
\* count.
C5_PartitionAnyInput ==
    fb.pc = "done" =>
        /\ Len(fb.fetched) = Len(fb.symbols)
        /\ \A sym \in InputSymbols :
              (sym \in DictKeys(fb.metas)) # (sym \in DictKeys(fb.errors))
        /\ Len(fb.metas) + Len(fb.errors) = Len(fb.symbols)

\* C5 as amended: for every input sequence the number of fetches equals the
\* input length and every input symbol is a key of metas or of errors (and
\* no other key is); when no symbol is listed twice it is a key of exactly
\* one of them, and successes plus failures equals the input count.
C5_Partition ==
    fb.pc = "done" =>
        /\ Len(fb.fetched) = Len(fb.symbols)
        /\ DictKeys(fb.metas) \cup DictKeys(fb.errors) = InputSymbols
        /\ NoRepeats =>
              /\ DictKeys(fb.metas) \cap DictKeys(fb.errors) = {}
              /\ Len(fb.metas) + Len(fb.errors) = Len(fb.symbols)

\* C5 witness: three different symbols, some fetched and some not.
C5_Witness ==
    /\ fb.pc = "done"
    /\ NoRepeats
    /\ Len(fb.symbols) = 3
    /\ Len(fb.metas) = 2 /\ Len(fb.errors) = 1

\* C8: when a run of main has ingested, every prices row and every meta row
\* it wrote carries the one run identifier ingest_prices returned to it,
\* that identifier has its row in runs, and no row written before this run
\* carries it.
C8_OneRunIdPerInvocation ==
    cli.pc \in {"ingest_prices", "returned"} =>
        LET rid == cli.run_id
            written == BatchKeys(cli.d_db)
        IN  /\ \A x \in prices : NaturalKey(x) \in written <=> x["run_id"] = rid
            /\ Cardinality({x \in runs : x.run_id = rid}) = 1
            /\ cli.pc = "returned" =>
                  \A x \in meta :
                      (\E i \in DOMAIN cli.df_meta.rows :
                           cli.df_meta.rows[i]["symbol"] = x["symbol"])
                      <=> x["run_id"] = rid

\* C8 witness: the second run of main has returned 0 after writing bars and
\* metadata, and the database still holds a bar and a metadata row that only
\* the first run wrote.
C8_Witness ==
    /\ cli.pc = "returned" /\ cli.inv = 2
    /\ Len(cli.d_db) > 0 /\ Len(cli.df_meta.rows) > 0
    /\ \E x \in prices : x["run_id"] # cli.run_id
    /\ \E x \in meta : x["run_id"] # cli.run_id
    /\ \E x \in meta : x["run_id"] = cli.run_id

\* The body the fetch parsed, when its first data request was answered 200
\* with a JSON object.
Parsed ==
    /\ last.op = "fetch_yahoo_chart"
    /\ last.resps[1].kind = "http" /\ last.resps[1].status = 200
    /\ last.resps[1].parse = "object"

Body == last.resps[1].doc

RowSet(df) == {df.rows[i] : i \in DOMAIN df.rows}

\* C11: a successful fetch produces as many rows as the provider's timestamp
\* array has elements, one for each timestamp, whatever the lengths of the
\* open/high/low/close/volume arrays.
C11_RowPerTimestamp ==
    (Parsed /\ last.fetch.out.ok) =>
        /\ Len(last.fetch.out.df.rows) = Len(Body.timestamp)
        /\ {r["datetime"].s : r \in RowSet(last.fetch.out.df)}
              = {Body.timestamp[i] : i \in DOMAIN Body.timestamp}

\* C11 witness: a successful fetch of two timestamps whose open array is
\* longer and whose volume array is missing.
C11_Witness ==
    /\ Parsed /\ last.fetch.out.ok
    /\ Len(Body.timestamp) = 2
    /\ Len(Body.quote["open"]) = 3
    /\ Len(Body.quote["volume"]) = 0
    /\ Len(last.fetch.out.df.rows) = 2

\* C12: main returns 0 whichever symbols' fetches fail: it goes through
\* export, schema initialization, price ingestion and metadata ingestion, and
\* the only way it ends otherwise is an exception of the export or of the
\* store; a run never ends in an exception that comes from the batch's content.
C12_ExitZeroWhateverFails ==
    cli.pc = "raised" => cli.exc = "OSError"

\* The outcomes of one data attempt.
Fetched == last.op = "fetch_yahoo_chart"

Asked == Tail(last.fetch.requests)

TooMany(r) == r.kind = "http" /\ r.status = 429

ErrorStatus(r) == r.kind = "http" /\ r.status # 429 /\ r.status >= 400

Unparseable(r) == r.kind = "http" /\ r.status < 400 /\ r.parse = "fail"

\* the attempt returned a parsed JSON body (r.json() returned)
GaveBody(r) == r.kind = "http" /\ r.status < 400 /\ r.parse # "fail"

FirstBody == CHOOSE k \in 1..4 : GaveBody(last.resps[k])
                                 /\ \A j \in 1..(k - 1) : ~GaveBody(last.resps[j])

\* C13: at most four data requests are issued, to query1, query2, query1,
\* query2 in that order; a 429 or an exception on an attempt moves on to the
\* next candidate, and the attempt that returns a parsed JSON body is the
\* last request.
C13_FourCandidatesInOrder ==
    Fetched =>
        /\ Len(Asked) <= 4
        /\ \A i \in DOMAIN Asked :
              Asked[i] = IF i % 2 = 1 THEN "query1.finance.yahoo.com"
                                      ELSE "query2.finance.yahoo.com"
        /\ Len(Asked) = IF \E k \in 1..4 : GaveBody(last.resps[k])
                        THEN FirstBody ELSE 4

\* C13 witness: an exception, a 429 and an error status, then a body from
\* the fourth candidate.
C13_Witness ==
    /\ Fetched
    /\ last.resps[1].kind = "exception"
    /\ TooMany(last.resps[2])
    /\ ErrorStatus(last.resps[3])
    /\ GaveBody(last.resps[4])
    /\ Len(Asked) = 4
    /\ last.fetch.out.ok

FailedToFetch(err) ==
    [ok |-> FALSE, exc |-> "RuntimeError",
     msg |-> "Failed to fetch " \o last.symbol \o ". Last error: " \o err]

ErrorOf(r) ==
    IF r.kind = "exception" THEN r.exc
    ELSE IF r.status >= 400 THEN "HTTPError " \o ToString(r.status)
    ELSE "JSONDecodeError"

\* C15: when no data attempt yields a parsed JSON body, the fetch fails with
\* the fetch failure that carries the error of the last attempt: never none,
\* and never the error of an earlier attempt.
C15_CarriesLastError ==
    (Fetched /\ \A k \in 1..4 : ~GaveBody(last.resps[k])) =>
        /\ ~last.fetch.out.ok
        /\ last.fetch.out # FailedToFetch("None")
        /\ last.fetch.out = FailedToFetch(ErrorOf(last.resps[4]))

\* C19: the warm-up request is the first request and the only one to the
\* quote page, and whether it succeeded or raised, the data requests and the
\* fetch's outcome are the same.
C19_WarmupSwallowed ==
    Fetched =>
        /\ last.fetch.requests[1] = "finance.yahoo.com"
        /\ \A i \in 2..Len(last.fetch.requests) :
              last.fetch.requests[i] # "finance.yahoo.com"
        /\ \A warm \in {"ok", "raise"} :
              FetchYahooChart(last.symbol, "60d", "5m", warm, last.resps)
                 = last.fetch

\* C19 witness: the warm-up raised, the first candidate failed and the
\* second gave a valid body: the fetch succeeded after two data requests.
C19_Witness ==
    /\ Fetched
    /\ last.warm = "raise"
    /\ last.resps[1].kind = "exception"
    /\ GaveBody(last.resps[2]) /\ last.resps[2].parse = "object"
    /\ ValidDoc(last.resps[2].doc)
    /\ last.fetch.out.ok
    /\ Len(last.fetch.requests) = 3

\* C16: a received body is classified in this order: a provider error object
\* gives the provider error that carries it, even when a result entry is
\* present; otherwise a missing, null or empty result gives the empty-result
\* failure; otherwise a missing or empty timestamp array gives the no-data
\* failure; rows are produced exactly when none of the three holds.
C16_ClassifiedInOrder ==
    Parsed =>
        LET out == last.fetch.out
        IN  /\ Body.error # NULL =>
                  out = [ok |-> FALSE, exc |-> "RuntimeError",
                         msg |-> "Yahoo API error for A: " \o Body.error]
            /\ (Body.error = NULL /\ Body.result # "entry") =>
                  out = [ok |-> FALSE, exc |-> "RuntimeError",
                         msg |-> "Empty 'result' for A."]
            /\ (Body.error = NULL /\ Body.result = "entry" /\ Body.timestamp = <<>>) =>
                  out = [ok |-> FALSE, exc |-> "ValueError",
                         msg |-> "No timestamps for A."]
            /\ out.ok <=> (Body.error = NULL /\ Body.result = "entry"
                                             /\ Body.timestamp # <<>>)

\* C16 witness: a body with a provider error beside a result entry that has
\* timestamps, which failed as a provider error.
C16_Witness ==
    /\ Parsed
    /\ Body.error = "Not Found" /\ Body.result = "entry"
    /\ Body.timestamp # <<>>
    /\ ~last.fetch.out.ok
    /\ last.fetch.out.msg = "Yahoo API error for A: Not Found"

\* C17: the adjusted close comes from the response only when the adjclose
\* array is exactly as long as the rows are many, the row of timestamp i then
\* holding element i; when the array is absent, empty, shorter or longer,
\* every row's adjusted close is null.
C17_AdjcloseOnlyWhenAligned ==
    (Parsed /\ last.fetch.out.ok) =>
        LET df == last.fetch.out.df
            n == Len(df.rows)
        IN  IF Len(Body.adjclose) = n
            THEN \A i \in 1..n :
                    \E r \in RowSet(df) : /\ r["datetime"].s = Body.timestamp[i]
                                           /\ r["adjclose"] = Body.adjclose[i]
            ELSE \A r \in RowSet(df) : r["adjclose"] = NULL

\* C17 witness: two timestamps given latest first with two adjusted closes;
\* after sorting, the first row holds the second element.
C17_Witness ==
    /\ Parsed /\ last.fetch.out.ok
    /\ Len(Body.timestamp) = 2 /\ Len(Body.adjclose) = 2
    /\ Body.timestamp[1] > Body.timestamp[2]
    /\ last.fetch.out.df.rows[1]["adjclose"] = Body.adjclose[2]
    /\ last.fetch.out.df.rows[2]["adjclose"] = Body.adjclose[1]

\* C18: the rows' instants are expressed in the time zone the response's
\* metadata declares whenever that zone is recognized, and in UTC only when
\* the zone is unrecognized or absent.
C18_DeclaredZoneUsed ==
    (Parsed /\ last.fetch.out.ok) =>
        LET tz_name == MetaGet(Body.meta, "timezone", "UTC")
        IN  last.fetch.out.df.tz =
                IF tz_name \in KnownTimezones THEN tz_name ELSE "UTC"

\* C20: after any sequence of completed ingest_prices calls, every run_id
\* that appears in a prices row is the run_id of a row of runs.
C20_EveryRunIdLogged ==
    \A x \in prices : \E r \in runs : r.run_id = x["run_id"]

\* C20 witness: three calls have completed, the stored bars carry two
\* different run identifiers, and one identifier was used by two calls.
C20_Witness ==
    /\ ncalls = 3
    /\ last.op = "ingest_prices" /\ last.result = "ok"
    /\ last.run_id_arg = "r1"
    /\ Cardinality({x["run_id"] : x \in prices}) = 2
    /\ \E x \in prices : x["run_id"] = "r1"
    /\ Cardinality(runs) = 2

\* C21: when ingest_prices meets a stored row with a key of the batch, the
\* row's datetime_local and datetime_tr stay as they were first inserted,
\* whatever local projection the new batch gives that instant.
C21_LocalTimesKept ==
    [][IngestOk =>
          \A x \in prices :
              NaturalKey(x) \in BatchKeys(last'.d_db) =>
                  \E y \in prices' :
                      /\ NaturalKey(y) = NaturalKey(x)
                      /\ y["datetime_local"] = x["datetime_local"]
                      /\ y["datetime_tr"] = x["datetime_tr"]]_vars

\* C21 witness: the latest call rewrote a stored bar (it carries the call's
\* run identifier and ingestion time) whose datetime_local is not the one the
\* call's batch gave for that key.
C21_Witness ==
    /\ last.op = "ingest_prices" /\ last.result = "ok" /\ last.hit
    /\ \E x \in prices :
          /\ NaturalKey(x) \in BatchKeys(last.d_db)
          /\ x["run_id"] = last.run_id
          /\ x["close"] = Latest(last.d_db, NaturalKey(x))["close"]
          /\ x["datetime_local"] # Latest(last.d_db, NaturalKey(x))["datetime_local"]
          /\ x["datetime_tr"] = Latest(last.d_db, NaturalKey(x))["datetime_tr"]

\* the number of stored bars that carry run identifier rid
Carrying(tbl, rid) == Cardinality({x \in tbl : x["run_id"] = rid})

\* no run's bars are more than its runs row records
Bounded(p, r) == \A row \in r : Carrying(p, row.run_id) <= row.n_rows

\* C22: as long as no run identifier is used by a second ingest_prices call,
\* the bars carrying a run identifier are never more than the n_rows of its
\* runs row: a call with a new identifier records the length of its batch,
\* which is the number of bars carrying it when no key is repeated in the
\* batch, and lowers or keeps the count of every earlier identifier.
C22_RowsWithinRunCount ==
    /\ Bounded(prices, runs)
    /\ [][(IngestOk /\ Bounded(prices, runs)
                    /\ \A row \in runs : row.run_id # last'.run_id) =>
              /\ Bounded(prices', runs')
              /\ \E row \in runs' : /\ row.run_id = last'.run_id
                                    /\ row.n_rows = Len(last'.d_db)
              /\ Cardinality(BatchKeys(last'.d_db)) = Len(last'.d_db) =>
                     Carrying(prices', last'.run_id) = Len(last'.d_db)
              /\ \A row \in runs :
                     Carrying(prices', row.run_id) <= Carrying(prices, row.run_id)]_vars

\* C22 witness: three calls under three identifiers; one run's bars were all
\* overwritten by a later run, although its runs row records two, and a
\* later run still has as many bars as its row records.
C22_Witness ==
    /\ ncalls = 3 /\ Cardinality(runs) = 3
    /\ \E row \in runs : row.n_rows = 2 /\ Carrying(prices, row.run_id) = 0
    /\ \E row \in runs : row.n_rows > 0 /\ Carrying(prices, row.run_id) = row.n_rows
    /\ Cardinality({x["run_id"] : x \in prices}) = 2

====
